---- MODULE Spec2Model ----
(***************************************************************************)
(* Model of the WebSocket gateway of src/server/index.ts: the per-         *)
(* connection heartbeat (lines 127-150), the message handler (152-162)     *)
(* and the shutdown sequence (196-228).                                    *)
(*                                                                         *)
(* The `ws` and `http` libraries are not part of the repository.  Their    *)
(* events are the environment of the handlers and are modelled as in       *)
(* ws 8.x: a 'close' event follows every terminate(), peer close and       *)
(* 'error'; WebSocketServer.close() stops accepting upgrades, leaves the   *)
(* accepted clients alone and emits 'close' once the set of clients is     *)
(* empty; http.Server.close() reports back once the listener is down.      *)
(***************************************************************************)
EXTENDS Integers, Sequences, FiniteSets, TLC

VARIABLES
    status,          \* per connection: "none" | "open" | "closing" | "terminated" | "closed"
    isAlive,         \* ws.isAlive
    heartbeat,       \* TRUE while the setInterval timer of the connection is armed
    clearCalls,      \* number of clearInterval(heartbeat) calls made so far
    forced,          \* the heartbeat tick called ws.terminate()
    probe,           \* history of the latest probe: "none" | "sent" | "answered" | "missed"
    wssState,        \* WebSocketServer: "listening" | "closing" | "closed"
    wssCloseCbs,     \* callbacks waiting for the server's 'close' event
    wssEmitPending,  \* emitClose scheduled with process.nextTick
    shutdownCalls,   \* number of times shutdown() has run
    pendingTimeouts, \* forced-exit timers armed and not yet fired
    httpCloseCalls,  \* server.close(cb) calls whose callback is outstanding
    exited,          \* process.exit has been called
    exitCode,        \* its argument
    ev               \* the handler that ran last: its name, connection, input and
                     \* the frames it sent

vars == <<status, isAlive, heartbeat, clearCalls, forced, probe, wssState,
          wssCloseCbs, wssEmitPending, shutdownCalls, pendingTimeouts,
          httpCloseCalls, exited, exitCode, ev>>

connVars == <<status, isAlive, heartbeat, clearCalls, forced, probe>>

shutVars == <<wssState, wssCloseCbs, wssEmitPending, shutdownCalls,
              pendingTimeouts, httpCloseCalls, exited, exitCode>>

\* Bounds of the model.
MaxConns == 2
MaxTriggers == 2

Conns == 1..MaxConns

\* process.exit arguments, lines 205 and 212.
SuccessStatus == 0

FailureStatus == 1

----------------------------------------------------------------------------
\* Inbound payloads, as token sequences, and JSON.parse on them.

StringToks == {"\"type\"", "\"id\"", "\"pong\"", "\"chat\""}
ScalarToks == StringToks \cup {"null", "42"}

Payloads ==
    { <<"{", "\"type\"", ":", "\"pong\"", "}">>,
      <<"{", "\"type\"", ":", "\"chat\"", "}">>,
      <<"{", "\"type\"", ":", "null", "}">>,
      <<"{", "\"id\"", ":", "\"pong\"", "}">>,
      <<"{", "}">>,
      <<"[", "]">>,
      <<"42">>,
      <<"null">>,
      <<"\"pong\"">>,
      <<>>,
      <<"pong">>,
      <<"{", "\"type\"", ":", "\"pong\"">> }

Scalar(t) ==
    IF t = "null" THEN [kind |-> "null"]
    ELSE IF t = "42" THEN [kind |-> "number"]
    ELSE [kind |-> "string", str |-> t]

\* JSON.parse(message.toString()): ok = FALSE stands for the SyntaxError.
JSONParse(p) ==
    IF Len(p) = 1 /\ p[1] \in ScalarToks
      THEN [ok |-> TRUE, val |-> Scalar(p[1])]
    ELSE IF p = <<"[", "]">>
      THEN [ok |-> TRUE, val |-> [kind |-> "array"]]
    ELSE IF p = <<"{", "}">>
      THEN [ok |-> TRUE, val |-> [kind |-> "object", keys |-> {}]]
    ELSE IF /\ Len(p) = 5
            /\ p[1] = "{" /\ p[2] \in StringToks /\ p[3] = ":"
            /\ p[4] \in ScalarToks /\ p[5] = "}"
      THEN [ok |-> TRUE,
            val |-> [kind |-> "object", keys |-> {p[2]}, member |-> Scalar(p[4])]]
    ELSE [ok |-> FALSE]

\* data.type: reading a property of null throws a TypeError; of any other
\* value without that property it yields undefined.
TypeOf(v) ==
    IF v.kind = "null" THEN [threw |-> TRUE]
    ELSE IF v.kind = "object" /\ "\"type\"" \in v.keys
      THEN [threw |-> FALSE, val |-> v.member]
    ELSE [threw |-> FALSE, val |-> [kind |-> "undefined"]]

\* JSON.stringify of the two frames the handler sends.
AckFrame == <<"{", "\"type\"", ":", "\"ack\"", "}">>
ErrorFrame == <<"{", "\"type\"", ":", "\"error\"", ",",
                "\"message\"", ":", "\"Invalid message format\"", "}">>

\* The handler whose reply to a pong message falls through to the catch branch
\* as well.
OnMessageFallThrough(p) ==
    LET r == JSONParse(p) IN
    IF ~r.ok THEN <<ErrorFrame>>
    ELSE LET t == TypeOf(r.val) IN
         IF t.threw THEN <<ErrorFrame>>
         ELSE IF t.val = [kind |-> "string", str |-> "\"pong\""]
           THEN <<AckFrame, ErrorFrame>>
         ELSE <<>>

\* The handler that acknowledges every record with a type.
OnMessageAcksAll(p) ==
    LET r == JSONParse(p) IN
    IF ~r.ok THEN <<ErrorFrame>>
    ELSE LET t == TypeOf(r.val) IN
         IF t.threw THEN <<ErrorFrame>>
         ELSE IF t.val # [kind |-> "undefined"] THEN <<AckFrame>>
         ELSE <<>>

\* The frames ws.on('message') sends for payload p, in order.
OnMessage(p) ==
    LET r == JSONParse(p) IN
    IF ~r.ok THEN <<ErrorFrame>>
    ELSE LET t == TypeOf(r.val) IN
         IF t.threw THEN <<ErrorFrame>>
         ELSE IF t.val = [kind |-> "string", str |-> "\"pong\""] THEN <<AckFrame>>
         ELSE <<>>

\* The transport-level probe of ws.ping(), a control frame.
PingFrame == <<"ping">>

Ev(h, c, p, sent) == [h |-> h, conn |-> c, payload |-> p, sent |-> sent]

----------------------------------------------------------------------------
Init ==
    /\ status = [c \in Conns |-> "none"]
    /\ isAlive = [c \in Conns |-> FALSE]
    /\ heartbeat = [c \in Conns |-> FALSE]
    /\ clearCalls = [c \in Conns |-> 0]
    /\ forced = [c \in Conns |-> FALSE]
    /\ probe = [c \in Conns |-> "none"]
    /\ wssState = "listening"
    /\ wssCloseCbs = 0
    /\ wssEmitPending = FALSE
    /\ shutdownCalls = 0
    /\ pendingTimeouts = 0
    /\ httpCloseCalls = 0
    /\ exited = FALSE
    /\ exitCode = 0
    /\ ev = Ev("listen", 0, <<>>, <<>>)

\* wss.clients: accepted connections whose 'close' event is still to come.
Live == {c \in DOMAIN status : status[c] \in {"open", "closing", "terminated"}}

\* wss.on('connection'), lines 127-133: the next connection is accepted.
Accept(c) ==
    /\ ~exited
    /\ wssState = "listening"
    /\ status[c] = "none"
    /\ \A d \in DOMAIN status : d < c => status[d] # "none"
    /\ status' = [status EXCEPT ![c] = "open"]
    /\ isAlive' = [isAlive EXCEPT ![c] = TRUE]
    /\ heartbeat' = [heartbeat EXCEPT ![c] = TRUE]
    /\ ev' = Ev("connection", c, <<>>, <<>>)
    /\ UNCHANGED <<clearCalls, forced, probe>>
    /\ UNCHANGED shutVars

\* A cancellation that leaves the timer armed.
ClearIntervalLeak(c) ==
    /\ heartbeat' = heartbeat
    /\ clearCalls' = [clearCalls EXCEPT ![c] = @ + 1]

\* clearInterval(heartbeat) is called for connection c.
ClearInterval(c) ==
    /\ heartbeat' = [heartbeat EXCEPT ![c] = FALSE]
    /\ clearCalls' = [clearCalls EXCEPT ![c] = @ + 1]

\* A tick that never finds the probe unanswered.
ExpiredNever(c) == FALSE

\* Line 134, the test of the heartbeat tick: the previous probe was not answered.
Expired(c) == ~isAlive[c]

\* A tick that forgets to clear the flag.
AfterProbeStale(c) == isAlive[c]

\* Line 138, the flag a tick leaves behind when it sends a probe.
AfterProbe(c) == FALSE

\* A pong handler that forgets to set the flag.
AfterPongStale(c) == isAlive[c]

\* Line 131, the flag a transport-level pong leaves behind.
AfterPong(c) == TRUE

\* The setInterval callback of connection c fires, lines 133-140.  A tick that
\* finds the previous probe without a pong records it as missed.
Tick(c) ==
    /\ ~exited
    /\ heartbeat[c]
    /\ IF Expired(c)
         THEN /\ ClearInterval(c)
              /\ forced' = [forced EXCEPT ![c] = TRUE]
              /\ status' = [status EXCEPT ![c] = "terminated"]
              /\ probe' = [probe EXCEPT ![c] =
                              IF @ \in {"sent", "missed"} THEN "missed" ELSE @]
              /\ ev' = Ev("tick", c, <<>>, <<>>)
              /\ UNCHANGED isAlive
         ELSE /\ isAlive' = [isAlive EXCEPT ![c] = AfterProbe(c)]
              /\ probe' = [probe EXCEPT ![c] =
                              IF @ \in {"sent", "missed"} THEN "missed" ELSE "sent"]
              /\ ev' = Ev("tick", c, <<>>, <<PingFrame>>)
              /\ UNCHANGED <<heartbeat, clearCalls, forced, status>>
    /\ UNCHANGED shutVars

\* ws.on('pong'), line 131: the peer's transport-level pong is delivered.
Pong(c) ==
    /\ ~exited
    /\ status[c] = "open"
    /\ isAlive' = [isAlive EXCEPT ![c] = AfterPong(c)]
    /\ probe' = [probe EXCEPT ![c] =
                    IF @ \in {"sent", "missed"} THEN "answered" ELSE @]
    /\ ev' = Ev("pong", c, <<>>, <<>>)
    /\ UNCHANGED <<status, heartbeat, clearCalls, forced>>
    /\ UNCHANGED shutVars

\* The peer starts the closing handshake: the 'close' event is delivered later.
PeerClose(c) ==
    /\ ~exited
    /\ status[c] = "open"
    /\ status' = [status EXCEPT ![c] = "closing"]
    /\ ev' = Ev("peerclose", c, <<>>, <<>>)
    /\ UNCHANGED <<isAlive, heartbeat, clearCalls, forced, probe>>
    /\ UNCHANGED shutVars

\* An error handler that leaves the timer armed.
ErrorEventKeepsTimer(c) ==
    /\ ~exited
    /\ status[c] \in {"open", "closing"}
    /\ status' = [status EXCEPT ![c] = "terminated"]
    /\ ev' = Ev("error", c, <<>>, <<>>)
    /\ UNCHANGED <<isAlive, heartbeat, clearCalls, forced, probe>>
    /\ UNCHANGED shutVars

\* ws.on('error'), lines 147-150: a transport error is delivered; the socket is
\* destroyed and its 'close' event follows.
ErrorEvent(c) ==
    /\ ~exited
    /\ status[c] \in {"open", "closing"}
    /\ status' = [status EXCEPT ![c] = "terminated"]
    /\ ClearInterval(c)
    /\ ev' = Ev("error", c, <<>>, <<>>)
    /\ UNCHANGED <<isAlive, forced, probe>>
    /\ UNCHANGED shutVars

\* A close handler that leaves the timer armed.
CloseEventKeepsTimer(c) ==
    /\ ~exited
    /\ status[c] \in {"closing", "terminated"}
    /\ status' = [status EXCEPT ![c] = "closed"]
    /\ wssEmitPending' = (wssEmitPending \/ (wssState = "closing" /\ Live = {c}))
    /\ ev' = Ev("close", c, <<>>, <<>>)
    /\ UNCHANGED <<isAlive, heartbeat, clearCalls, forced, probe>>
    /\ UNCHANGED <<wssState, wssCloseCbs, shutdownCalls, pendingTimeouts,
                   httpCloseCalls, exited, exitCode>>

\* ws.on('close'), lines 142-145: the connection leaves wss.clients and the
\* handler runs; a server that is closing emits its own 'close' after the last
\* client.
CloseEvent(c) ==
    /\ ~exited
    /\ status[c] \in {"closing", "terminated"}
    /\ status' = [status EXCEPT ![c] = "closed"]
    /\ ClearInterval(c)
    /\ wssEmitPending' = (wssEmitPending \/ (wssState = "closing" /\ Live = {c}))
    /\ ev' = Ev("close", c, <<>>, <<>>)
    /\ UNCHANGED <<isAlive, forced, probe>>
    /\ UNCHANGED <<wssState, wssCloseCbs, shutdownCalls, pendingTimeouts,
                   httpCloseCalls, exited, exitCode>>

\* A message handler that takes an application-level pong for a heartbeat
\* answer.
MessageRevives(c, p) ==
    /\ ~exited
    /\ status[c] = "open"
    /\ ev' = Ev("message", c, p, OnMessage(p))
    /\ isAlive' = [isAlive EXCEPT ![c] = @ \/ OnMessage(p) = <<AckFrame>>]
    /\ UNCHANGED <<status, heartbeat, clearCalls, forced, probe>>
    /\ UNCHANGED shutVars

\* ws.on('message'), lines 152-162, runs for payload p.
Message(c, p) ==
    /\ ~exited
    /\ status[c] = "open"
    /\ ev' = Ev("message", c, p, OnMessage(p))
    /\ UNCHANGED connVars
    /\ UNCHANGED shutVars

----------------------------------------------------------------------------
\* A close that reports closed without waiting for the clients.
WssCloseEager ==
    /\ wssCloseCbs' = wssCloseCbs + 1
    /\ wssState' = IF wssState = "listening" THEN "closing" ELSE wssState
    /\ wssEmitPending' = TRUE

\* A close that keeps the listener accepting upgrades.
WssCloseStillListening ==
    /\ wssCloseCbs' = wssCloseCbs + 1
    /\ wssState' = wssState
    /\ wssEmitPending' = (wssEmitPending \/ wssState = "closed" \/ Live = {})

\* wss.close(cb), lines 200-207: the callback is registered; a listening server
\* stops accepting and, with no client left, schedules its 'close' event.
WssClose ==
    /\ wssCloseCbs' = wssCloseCbs + 1
    /\ wssState' = IF wssState = "listening" THEN "closing" ELSE wssState
    /\ wssEmitPending' = \/ wssEmitPending
                         \/ wssState = "closed"
                         \/ (wssState = "listening" /\ Live = {})

\* A shutdown that arms no timer.
ArmTimeoutSkipped ==
    pendingTimeouts' = pendingTimeouts

\* setTimeout(..., 10000), lines 210-213.
ArmTimeout ==
    pendingTimeouts' = pendingTimeouts + 1

\* shutdown(), lines 196-214, invoked by trigger t.
Shutdown(t) ==
    /\ ~exited
    /\ shutdownCalls < MaxTriggers
    /\ shutdownCalls' = shutdownCalls + 1
    /\ WssClose
    /\ ArmTimeout
    /\ ev' = Ev(t, 0, <<>>, <<>>)
    /\ UNCHANGED <<httpCloseCalls, exited, exitCode>>
    /\ UNCHANGED connVars

\* process.on('SIGTERM', shutdown) and process.on('SIGINT', shutdown).
OnSignal(sig) == Shutdown(sig)

\* An uncaught exception that exits at once.
OnUncaughtExceptionExit ==
    /\ ~exited
    /\ exited' = TRUE
    /\ exitCode' = FailureStatus
    /\ ev' = Ev("uncaughtException", 0, <<>>, <<>>)
    /\ UNCHANGED <<wssState, wssCloseCbs, wssEmitPending, shutdownCalls,
                   pendingTimeouts, httpCloseCalls>>
    /\ UNCHANGED connVars

\* process.on('uncaughtException'), lines 221-224: shutdown() is called; it
\* does not reject, so the .catch branch is never taken.
OnUncaughtException == Shutdown("uncaughtException")

\* A 'close' callback that exits at once instead of closing the HTTP server.
WssClosedExits ==
    /\ ~exited
    /\ wssEmitPending
    /\ wssEmitPending' = FALSE
    /\ wssState' = "closed"
    /\ wssCloseCbs' = 0
    /\ exited' = TRUE
    /\ exitCode' = SuccessStatus
    /\ ev' = Ev("wssclose", 0, <<>>, <<>>)
    /\ UNCHANGED <<shutdownCalls, pendingTimeouts, httpCloseCalls>>
    /\ UNCHANGED connVars

\* An unhandled rejection that is treated like an uncaught exception.
OnUnhandledRejectionDrains ==
    /\ ~exited
    /\ shutdownCalls < MaxTriggers
    /\ shutdownCalls' = shutdownCalls + 1
    /\ WssClose
    /\ ArmTimeout
    /\ ev' = Ev("unhandledRejection", 0, <<>>, <<>>)
    /\ UNCHANGED <<httpCloseCalls, exited, exitCode>>
    /\ UNCHANGED connVars

\* process.on('unhandledRejection'), lines 226-228: the rejection is logged.
OnUnhandledRejection ==
    /\ ~exited
    /\ ev' = Ev("unhandledRejection", 0, <<>>, <<>>)
    /\ UNCHANGED connVars
    /\ UNCHANGED shutVars

\* The WebSocketServer emits 'close': every registered callback calls
\* server.close(cb), lines 200-206.
WssClosed ==
    /\ ~exited
    /\ wssEmitPending
    /\ wssEmitPending' = FALSE
    /\ wssState' = "closed"
    /\ httpCloseCalls' = httpCloseCalls + wssCloseCbs
    /\ wssCloseCbs' = 0
    /\ ev' = Ev("wssclose", 0, <<>>, <<>>)
    /\ UNCHANGED <<shutdownCalls, pendingTimeouts, exited, exitCode>>
    /\ UNCHANGED connVars

\* The HTTP server's close callback runs: process.exit(0), lines 203-206.
HttpClosed ==
    /\ ~exited
    /\ httpCloseCalls > 0
    /\ exited' = TRUE
    /\ exitCode' = SuccessStatus
    /\ ev' = Ev("httpclose", 0, <<>>, <<>>)
    /\ UNCHANGED <<wssState, wssCloseCbs, wssEmitPending, shutdownCalls,
                   pendingTimeouts, httpCloseCalls>>
    /\ UNCHANGED connVars

\* A forced-exit timer fires: process.exit(1), lines 210-213.
TimeoutFire ==
    /\ ~exited
    /\ pendingTimeouts > 0
    /\ pendingTimeouts' = pendingTimeouts - 1
    /\ exited' = TRUE
    /\ exitCode' = FailureStatus
    /\ ev' = Ev("timeout", 0, <<>>, <<>>)
    /\ UNCHANGED <<wssState, wssCloseCbs, wssEmitPending, shutdownCalls,
                   httpCloseCalls>>
    /\ UNCHANGED connVars

Next ==
    \/ \E c \in Conns : Accept(c)
    \/ \E c \in Conns : Tick(c)
    \/ \E c \in Conns : Pong(c)
    \/ \E c \in Conns : PeerClose(c)
    \/ \E c \in Conns : ErrorEvent(c)
    \/ \E c \in Conns : CloseEvent(c)
    \/ \E c \in Conns, p \in Payloads : Message(c, p)
    \/ \E sig \in {"SIGTERM", "SIGINT"} : OnSignal(sig)
    \/ OnUncaughtException
    \/ OnUnhandledRejection
    \/ WssClosed
    \/ HttpClosed
    \/ TimeoutFire

Spec == Init /\ [][Next]_vars

\* The timers of the event loop fire while the process runs.
FairSpec == Spec /\ WF_vars(TimeoutFire)

\* A pending 'close' event of ws is delivered while the process runs.
FairCloseSpec == Spec /\ WF_vars(\E c \in Conns : CloseEvent(c))

----------------------------------------------------------------------------
\* The shutdown state machine of the process.
ShutdownState ==
    IF exited THEN "Closed"
    ELSE IF shutdownCalls > 0 THEN "Draining"
    ELSE "Running"

Triggers == {"SIGTERM", "SIGINT", "uncaughtException"}

\* C1: a connection whose every probe is answered before the next tick is
\* never terminated by the heartbeat: the tick terminates only a connection
\* that has left a probe unanswered for a whole period.
C1_AnsweringNeverTerminated ==
    \A c \in Conns : forced[c] => probe[c] = "missed"

\* A connection that has answered a probe is still open with its timer armed,
\* while another one has been terminated.
C1_Witness ==
    \E c, d \in Conns :
        /\ status[c] = "open" /\ heartbeat[c] /\ isAlive[c]
        /\ probe[c] = "answered" /\ ~forced[c]
        /\ forced[d]

\* C2: a connection that stops answering is terminated exactly on the tick
\* that follows the first tick whose probe went unanswered: never before a
\* probe has gone a whole period without a pong, and never later than that.
C2_TerminatedOnFollowingTick ==
    \A c \in Conns :
        /\ forced[c] => probe[c] = "missed" /\ ~heartbeat[c]
        /\ probe[c] = "missed" => forced[c] /\ status[c] \in {"terminated", "closed"}
        /\ status[c] = "open" /\ probe[c] = "sent" => heartbeat[c] /\ ~isAlive[c]

\* A connection left a probe unanswered for a whole period and the tick that
\* followed terminated it.
C2_Witness ==
    \E c \in Conns :
        /\ forced[c] /\ probe[c] = "missed" /\ status[c] = "terminated"
        /\ ev = Ev("tick", c, <<>>, <<>>)

\* C3 (as claimed): clearInterval is called exactly once per connection, at
\* most once while it lives and once by the time its close event is handled.
C3_ExactlyOneCancellation ==
    \A c \in Conns :
        /\ clearCalls[c] <= 1
        /\ status[c] = "closed" => clearCalls[c] = 1

\* A payload that is not JSON, or is JSON but no record with a type field.
SchemaViolating(p) ==
    \/ ~JSONParse(p).ok
    \/ JSONParse(p).val.kind # "object"
    \/ "\"type\"" \notin JSONParse(p).val.keys

\* C4 (as claimed): every non-JSON or schema-violating payload is answered with
\* exactly one error frame and the connection stays open.
C4_InvalidPayloadYieldsError ==
    ev.h = "message" /\ SchemaViolating(ev.payload) =>
        ev.sent = <<ErrorFrame>> /\ status[ev.conn] = "open"

\* C5: a message that decodes to a record of type "pong" is answered with
\* exactly one ack frame and nothing else.
C5_PongYieldsAck ==
    ev.h = "message" /\ ev.payload = <<"{", "\"type\"", ":", "\"pong\"", "}">> =>
        ev.sent = <<AckFrame>> /\ status[ev.conn] = "open"

C5_Witness ==
    /\ ev.h = "message"
    /\ ev.payload = <<"{", "\"type\"", ":", "\"pong\"", "}">>
    /\ ev.sent = <<AckFrame>>

\* C6 (as claimed): however many triggers arrive, the entry actions of the
\* drain run once: one wss.close call, one forced-exit timer, one drain.
C6_SingleDrain ==
    /\ shutdownCalls <= 1
    /\ wssCloseCbs + httpCloseCalls <= 1
    /\ pendingTimeouts <= 1

\* C7: while draining a forced-exit timer is always pending, success is
\* reported only with no connection left, and every drain ends in an exit,
\* which is the exit with failure status when connections are still there.
C7_BoundedShutdown ==
    /\ [](ShutdownState = "Draining" => pendingTimeouts >= 1)
    /\ [](exited /\ exitCode = SuccessStatus => Live = {})
    /\ (shutdownCalls > 0 ~> (exited /\ (exitCode = FailureStatus \/ Live = {})))

\* The process has exited with failure status while a connection was open.
C7_Witness ==
    /\ exited /\ exitCode = FailureStatus
    /\ \E c \in Conns : status[c] = "open"

\* The state an exit leaves behind.
ExitOutcome ==
    /\ ev.h = "timeout" => exited /\ exitCode = FailureStatus
    /\ exited =>
         /\ exitCode \in {SuccessStatus, FailureStatus}
         /\ exitCode = SuccessStatus =>
              /\ ev.h = "httpclose"
              /\ wssState = "closed" /\ Live = {}
              /\ httpCloseCalls > 0
              /\ pendingTimeouts = shutdownCalls
         /\ exitCode = FailureStatus =>
              /\ ev.h = "timeout"
              /\ pendingTimeouts = shutdownCalls - 1

\* C8: the exit with success status happens only after the WebSocket server
\* reported closed, with no connection left, and the HTTP server closed, all
\* before any forced-exit timer fired; a timer that fires exits with failure
\* status whatever is outstanding; nothing happens after the exit.
C8_ExitStatus ==
    /\ []ExitOutcome
    /\ [][~exited]_vars

\* The process has exited with success status after a connection closed.
C8_Witness ==
    /\ exited /\ exitCode = SuccessStatus
    /\ \E c \in Conns : status[c] = "closed"

\* The entry of the drain, as one step.
DrainEntry ==
    /\ ~exited'
    /\ shutdownCalls' = shutdownCalls + 1
    /\ wssCloseCbs' = wssCloseCbs + 1
    /\ pendingTimeouts' = pendingTimeouts + 1
    /\ wssState' # "listening"
    /\ shutdownCalls = 0 => wssState = "listening" /\ wssState' = "closing"
    /\ UNCHANGED connVars

\* C9: an uncaught exception makes the step a termination signal makes: the
\* drain is entered, the WebSocket server is closed and the forced-exit timer
\* is armed; the process does not exit and no connection is touched.
C9_UncaughtExceptionDrains ==
    [][ev'.h \in Triggers => DrainEntry]_vars

\* After an uncaught exception alone the process drains with a connection
\* still open.
C9_Witness ==
    /\ ev.h = "uncaughtException" /\ shutdownCalls = 1
    /\ ShutdownState = "Draining" /\ pendingTimeouts = 1 /\ wssState = "closing"
    /\ \E c \in Conns : status[c] = "open"

\* C10 (as claimed): the step that enters the drain instructs every live
\* connection to close.
C10_LiveConnectionsToldToClose ==
    [][ev'.h \in Triggers /\ shutdownCalls = 0 =>
          \A c \in Conns : status[c] = "open" => status'[c] # "open"]_vars

\* C11: server.close is called only from the WebSocket server's close
\* callback, after that server reported closed, and no accepted connection is
\* live then or later.
C11_HttpCloseAfterDrain ==
    /\ httpCloseCalls > 0 => wssState = "closed" /\ Live = {}
    /\ ev.h = "wssclose" => wssState = "closed" /\ Live = {}

\* server.close has been called after a connection was accepted and closed.
C11_Witness ==
    /\ httpCloseCalls > 0 /\ ~exited
    /\ \E c \in Conns : status[c] = "closed"

\* C12 (as claimed): every live connection has its timer armed, also between
\* a forced termination or an error and the close event, and every connection
\* that has left the live set has its timer cancelled.
C12_LiveIffTimer ==
    \A c \in Conns :
        /\ c \in Live => heartbeat[c]
        /\ status[c] = "closed" => ~heartbeat[c] /\ clearCalls[c] >= 1

\* C12 (amended): a connection that is open, or closing on its peer's
\* initiative, has its timer armed and never cancelled; a connection that was
\* terminated by the tick or hit by an error, and one whose close event has
\* been handled, has its timer cancelled.
C12_TimerWhileUndisturbed ==
    \A c \in Conns :
        /\ status[c] \in {"open", "closing"} => heartbeat[c] /\ clearCalls[c] = 0
        /\ status[c] \in {"terminated", "closed"} => ~heartbeat[c] /\ clearCalls[c] >= 1
        /\ status[c] = "none" => ~heartbeat[c] /\ clearCalls[c] = 0

\* One connection is live with its timer cancelled, waiting for its close
\* event, beside one that is open with its timer armed.
C12_Witness ==
    \E c, d \in Conns :
        /\ status[c] = "terminated" /\ ~heartbeat[c] /\ c \in Live
        /\ status[d] = "open" /\ heartbeat[d]

\* The state of one connection, and the step that leaves every connection
\* but c as it was.
PerConn(c) ==
    <<status[c], isAlive[c], heartbeat[c], clearCalls[c], forced[c], probe[c]>>

OthersUnchanged(c) ==
    \A d \in Conns \ {c} : PerConn(d)' = PerConn(d)

\* C14: the error handler cancels the heartbeat of its own connection and
\* touches neither another connection nor the shutdown state; the connection
\* leaves the live set with the close event that follows: while the process
\* runs, again and again no live connection has its heartbeat cancelled, so
\* none stays live for ever in that condition.
C14_ErrorIsLocal ==
    /\ [][ev'.h = "error" =>
            /\ ~heartbeat'[ev'.conn]
            /\ clearCalls'[ev'.conn] = clearCalls[ev'.conn] + 1
            /\ OthersUnchanged(ev'.conn)
            /\ UNCHANGED shutVars]_vars
    /\ []<>(exited \/ \A c \in Conns : c \in Live => heartbeat[c])

\* A connection hit by an error has been removed while the other one is
\* open with its timer armed.
C14_Witness ==
    \E c, d \in Conns :
        /\ ev = Ev("close", c, <<>>, <<>>) /\ status[c] = "closed"
        /\ ~forced[c] /\ clearCalls[c] = 2
        /\ status[d] = "open" /\ heartbeat[d]

\* C15: after the creation of a connection only its pong handler sets
\* isAlive; a message, of type "pong" or not, changes no connection state, and
\* a tick that follows an unanswered probe terminates whatever messages came
\* in between.
C15_OnlyTransportPongRevives ==
    [][/\ \A c \in Conns :
             status[c] # "none" /\ ~isAlive[c] /\ isAlive'[c] =>
                 ev' = Ev("pong", c, <<>>, <<>>)
       /\ ev'.h = "message" => UNCHANGED connVars
       /\ ev'.h = "tick" /\ probe[ev'.conn] = "sent" => forced'[ev'.conn]]_vars

\* An application-level pong was acknowledged on a connection whose probe is
\* still unanswered: the flag stays false.
C15_Witness ==
    /\ ev.h = "message" /\ ev.sent = <<AckFrame>>
    /\ status[ev.conn] = "open" /\ probe[ev.conn] = "sent"
    /\ ~isAlive[ev.conn] /\ heartbeat[ev.conn]

\* C16: the timer is armed only for a connection that is in the live set, a
\* probe is sent only on a connection whose timer is armed, and no tick fires
\* for a connection whose close event has been handled.
C16_TimerWithinLifetime ==
    /\ [](\A c \in Conns :
             /\ heartbeat[c] => status[c] \in {"open", "closing"}
             /\ probe[c] # "none" => status[c] # "none")
    /\ [][ev'.h = "tick" =>
             /\ heartbeat[ev'.conn]
             /\ status[ev'.conn] \in {"open", "closing"}]_vars

\* A connection that was probed has had its close event handled without a
\* forced termination, and its timer is cancelled.
C16_Witness ==
    \E c \in Conns :
        /\ status[c] = "closed" /\ ~heartbeat[c]
        /\ probe[c] = "sent" /\ ~forced[c]

\* C17: once shutdown() has run, the connection handler is not invoked again:
\* no connection is accepted and no timer is armed.
C17_NoAcceptWhileDraining ==
    [][shutdownCalls > 0 =>
          /\ ev'.h # "connection"
          /\ \A c \in Conns :
                /\ status[c] = "none" => status'[c] = "none"
                /\ heartbeat'[c] => heartbeat[c]
          /\ Live' \subseteq Live]_vars

\* The process drains with one connection accepted and one never accepted.
C17_Witness ==
    /\ ShutdownState = "Draining"
    /\ \E c, d \in Conns : status[c] = "open" /\ status[d] = "none"
    /\ ev.h = "tick"

\* C18: the tick that finds isAlive false cancels the timer of its own
\* connection, terminates it and sends no probe; every other connection and
\* the shutdown state are left as they were.
C18_TimeoutIsLocal ==
    [][ev'.h = "tick" /\ ~isAlive[ev'.conn] =>
          /\ ~heartbeat'[ev'.conn]
          /\ forced'[ev'.conn]
          /\ status'[ev'.conn] = "terminated"
          /\ ev'.sent = <<>>
          /\ OthersUnchanged(ev'.conn)
          /\ UNCHANGED shutVars]_vars

\* One connection was terminated by its tick while the other one is open,
\* alive and has its timer armed.
C18_Witness ==
    \E c, d \in Conns :
        /\ ev = Ev("tick", c, <<>>, <<>>) /\ forced[c] /\ status[c] = "terminated"
        /\ status[d] = "open" /\ heartbeat[d] /\ isAlive[d]

\* The payloads that decode to a record with a type other than "pong".
OtherTypeRecords ==
    { <<"{", "\"type\"", ":", "\"chat\"", "}">>,
      <<"{", "\"type\"", ":", "null", "}">> }

\* C19: a message that decodes to a record whose type is not "pong" is
\* answered with no frame and changes nothing of the connection.
C19_OtherTypesPassSilently ==
    [][ev'.h = "message" /\ ev'.payload \in OtherTypeRecords =>
          /\ ev'.sent = <<>>
          /\ status'[ev'.conn] = "open"
          /\ UNCHANGED connVars
          /\ UNCHANGED shutVars]_vars

C19_Witness ==
    /\ ev.h = "message" /\ ev.payload \in OtherTypeRecords
    /\ ev.sent = <<>> /\ status[ev.conn] = "open"

\* C20: an unhandled rejection changes neither the shutdown state nor any
\* connection.
C20_RejectionOnlyLogged ==
    [][ev'.h = "unhandledRejection" =>
          /\ UNCHANGED connVars
          /\ UNCHANGED shutVars]_vars

\* A rejection was logged while the process runs with an open connection.
C20_Witness ==
    /\ ev.h = "unhandledRejection"
    /\ ShutdownState = "Running" /\ pendingTimeouts = 0
    /\ \E c \in Conns : status[c] = "open" /\ heartbeat[c]

----------------------------------------------------------------------------
\* The end-to-end scenario of the specification: three connections, two of
\* which answer every probe before the next tick and one of which never
\* answers; once the silent one has been terminated and its close event
\* handled, SIGTERM arrives; the two peers that are left may then close, and
\* the forced-exit timer fires only while one of them is still open.
ScenarioConns == {1, 2, 3}
Responsive == {1, 2}
SilentConns == {3}

ScenarioInit ==
    /\ status = [c \in ScenarioConns |-> "none"]
    /\ isAlive = [c \in ScenarioConns |-> FALSE]
    /\ heartbeat = [c \in ScenarioConns |-> FALSE]
    /\ clearCalls = [c \in ScenarioConns |-> 0]
    /\ forced = [c \in ScenarioConns |-> FALSE]
    /\ probe = [c \in ScenarioConns |-> "none"]
    /\ wssState = "listening"
    /\ wssCloseCbs = 0
    /\ wssEmitPending = FALSE
    /\ shutdownCalls = 0
    /\ pendingTimeouts = 0
    /\ httpCloseCalls = 0
    /\ exited = FALSE
    /\ exitCode = 0
    /\ ev = Ev("listen", 0, <<>>, <<>>)

ScenarioNext ==
    \/ \E c \in ScenarioConns : Accept(c)
    \/ \E c \in Responsive : probe[c] # "sent" /\ Tick(c)
    \/ \E c \in SilentConns : Tick(c)
    \/ \E c \in Responsive : Pong(c)
    \/ \E c \in Responsive : shutdownCalls > 0 /\ PeerClose(c)
    \/ \E c \in ScenarioConns : CloseEvent(c)
    \/ /\ shutdownCalls = 0
       /\ \A c \in Responsive : status[c] = "open"
       /\ \A c \in SilentConns : forced[c] /\ status[c] = "closed"
       /\ OnSignal("SIGTERM")
    \/ WssClosed
    \/ HttpClosed
    \/ (\E c \in Responsive : status[c] = "open") /\ TimeoutFire

ScenarioSpec == ScenarioInit /\ [][ScenarioNext]_vars

\* C13 (as claimed): in the scenario exactly the silent connection is
\* terminated and the two others are live when SIGTERM arrives; the listener
\* then stops accepting, both connections close and the process exits with
\* status 0.
C13_ScenarioExitsZero ==
    /\ \A c \in ScenarioConns : forced[c] => c \in SilentConns
    /\ shutdownCalls > 0 =>
         /\ wssState # "listening"
         /\ \A c \in SilentConns : forced[c] /\ status[c] = "closed"
    /\ ev.h = "SIGTERM" => Live = Responsive
    /\ exited =>
         /\ exitCode = SuccessStatus
         /\ \A c \in ScenarioConns : status[c] = "closed"
====
